---------------------------- MODULE Spec2Model ----------------------------
(***************************************************************************)
(* The release splitter build/split-release-for-github.js as a state       *)
(* machine: one run of main() is a sequence of filesystem operations, one  *)
(* action per operation, over an in-memory filesystem.  A file name is a   *)
(* sequence of characters, a path the sequence of its segment names below  *)
(* the POSIX root, a file's content a sequence of bytes.                   *)
(***************************************************************************)
EXTENDS Integers, Sequences, FiniteSets, TLC

(***************************************************************************)
(* Bounds of the model.                                                    *)
(***************************************************************************)
MaxLen == 3        \* largest file of an initial filesystem, in bytes
MaxStale == 3      \* most part files left behind by an earlier split
MaxRuns == 2       \* runs of main() over one filesystem
MaxSrcLen == 4     \* largest source handed to splitFileFromSource alone
MaxChunk == 3      \* largest chunkBytes handed to splitFileFromSource alone
MaxBuf == 2        \* largest bufferBytes handed to splitFileFromSource alone

(***************************************************************************)
(* Characters, names and decimal formatting.                               *)
(***************************************************************************)
DigitChars == <<"0", "1", "2", "3", "4", "5", "6", "7", "8", "9">>

IsDigit(c) == \E i \in 1..10 : DigitChars[i] = c

\* The letters the /i flag of the part pattern folds.
Lower(c) ==
  CASE c = "P" -> "p"
    [] c = "A" -> "a"
    [] c = "R" -> "r"
    [] c = "T" -> "t"
    [] OTHER -> c

RECURSIVE ToDecimal(_)
\* String(n) for n >= 0
ToDecimal(n) ==
  IF n < 10 THEN <<DigitChars[n + 1]>>
  ELSE ToDecimal(n \div 10) \o <<DigitChars[(n % 10) + 1]>>

RECURSIVE PadStart(_, _, _)
\* s.padStart(width, c)
PadStart(s, width, c) ==
  IF Len(s) >= width THEN s ELSE PadStart(<<c>> \o s, width, c)

StartsWith(s, prefix) ==
  /\ Len(s) >= Len(prefix)
  /\ SubSeq(s, 1, Len(prefix)) = prefix

Includes(s, c) == \E i \in 1..Len(s) : s[i] = c

DotPart == <<".", "p", "a", "r", "t">>

\* /\.part\d{2}$/i
MatchesPartPattern(s) ==
  /\ Len(s) >= 7
  /\ [i \in 1..5 |-> Lower(s[Len(s) - 7 + i])] = DotPart
  /\ IsDigit(s[Len(s) - 1])
  /\ IsDigit(s[Len(s)])

\* `${baseName}.part${String(part).padStart(2, '0')}`
PartFileName(baseName, part) ==
  baseName \o DotPart \o PadStart(ToDecimal(part), 2, "0")

Min(a, b) == IF a <= b THEN a ELSE b

(***************************************************************************)
(* Paths (node:path, POSIX).                                               *)
(***************************************************************************)
FsRoot == <<"/">>
Sep == "/"

Dirname(p) == SubSeq(p, 1, Len(p) - 1)
Basename(p) == p[Len(p)]
Join(dir, name) == Append(dir, name)

IsUnder(dir, p) == Len(p) > Len(dir) /\ SubSeq(p, 1, Len(dir)) = dir

\* every directory on the way to p, p included
Ancestors(p) == {SubSeq(p, 1, k) : k \in 0..Len(p)}

RECURSIVE CommonLen(_, _)
CommonLen(a, b) ==
  IF a # <<>> /\ b # <<>> /\ Head(a) = Head(b)
  THEN 1 + CommonLen(Tail(a), Tail(b))
  ELSE 0

DotDot == <<".", ".">>

\* path.relative(from, to), as its segments
Relative(from, to) ==
  LET k == CommonLen(from, to)
  IN [i \in 1..(Len(from) - k) |-> DotDot] \o SubSeq(to, k + 1, Len(to))

RECURSIVE JoinSegments(_)
\* the segments as one string
JoinSegments(segs) ==
  IF segs = <<>> THEN <<>>
  ELSE IF Len(segs) = 1 THEN Head(segs)
  ELSE Head(segs) \o <<Sep>> \o JoinSegments(Tail(segs))

\* path.isAbsolute
IsAbsolute(s) == s # <<>> /\ s[1] = Sep

RepoName == <<"r", "e", "p", "o">>
ReleaseName == <<"r", "e", "l", "e", "a", "s", "e">>
BackupName == <<"b", "a", "c", "k", "u", "p">>
ExternalName == <<"_", "e", "x", "t", "e", "r", "n", "a", "l">>
RootToken == <<"R", "O", "O", "T">>

REPO_ROOT == <<RepoName>>
DEFAULT_RELEASE_DIR == Join(REPO_ROOT, ReleaseName)
BACKUP_ROOT == Join(REPO_ROOT, BackupName)
DEFAULT_MAX_BYTES == 100 * 1024 * 1024
DEFAULT_CHUNK_BYTES == 95 * 1024 * 1024
DEFAULT_BUFFER_BYTES == 4 * 1024 * 1024

\* getBackupPath
GetBackupPath(filePath) ==
  LET relative == Relative(REPO_ROOT, filePath)
      relStr == JoinSegments(relative)
      isInsideRepo == /\ ~StartsWith(relStr, DotDot)
                      /\ ~IsAbsolute(relStr)
                      /\ ~Includes(relStr, ":")
      root == FsRoot
      drive == IF Len(root) >= 2 /\ root[2] = ":" THEN <<root[1]>> ELSE RootToken
  IN IF isInsideRepo
     THEN BACKUP_ROOT \o relative
     ELSE BACKUP_ROOT \o <<ExternalName, drive>> \o filePath


(***************************************************************************)
(* The filesystem: files maps the path of every regular file to its bytes, *)
(* dirs is the set of directories.                                         *)
(***************************************************************************)
NoPath == <<>>

Exists(fl, ds, p) == p \in DOMAIN fl \/ p \in ds

\* the function fl without the path p
RemoveFile(fl, p) == [q \in (DOMAIN fl) \ {p} |-> fl[q]]

\* the function fl with the bytes b at path p
PutFile(fl, p, b) == [q \in (DOMAIN fl) \cup {p} |-> IF q = p THEN b ELSE fl[q]]

\* fs.promises.readdir(dir): the entries of dir, files and directories
Entries(fl, ds, dir) == {p \in (DOMAIN fl) \cup ds : Len(p) = Len(dir) + 1 /\ Dirname(p) = dir}

RECURSIVE Orders(_)
\* the orders in which readdir may return a set of entries
Orders(S) ==
  IF S = {} THEN {<<>>}
  ELSE UNION {{<<x>> \o rest : rest \in Orders(S \ {x})} : x \in S}

RECURSIVE WalkFiles(_, _, _)
RECURSIVE WalkEntries(_, _, _)
\* walkFiles: the files below dir, depth first, in each order readdir allows
WalkFiles(fl, ds, dir) ==
  UNION {WalkEntries(fl, ds, order) : order \in Orders(Entries(fl, ds, dir))}

WalkEntries(fl, ds, order) ==
  IF order = <<>> THEN {<<>>}
  ELSE LET entry == Head(order)
           first == IF entry \in ds THEN WalkFiles(fl, ds, entry) ELSE {<<entry>>}
       IN {a \o b : a \in first, b \in WalkEntries(fl, ds, Tail(order))}

\* isPartFile
IsPartFile(filePath) == MatchesPartPattern(JoinSegments(filePath))

RECURSIVE SelectCandidates(_, _, _)
\* main, the loop over the walked files: part files and small files are skipped
SelectCandidates(order, fl, maxBytes) ==
  IF order = <<>> THEN <<>>
  ELSE LET filePath == Head(order)
           rest == SelectCandidates(Tail(order), fl, maxBytes)
       IN IF IsPartFile(filePath) THEN rest
          ELSE IF Len(fl[filePath]) <= maxBytes THEN rest
          ELSE <<[filePath |-> filePath, size |-> Len(fl[filePath])]>> \o rest

RECURSIVE InsertBySize(_, _)
InsertBySize(sorted, item) ==
  IF sorted = <<>> THEN <<item>>
  ELSE IF Head(sorted).size >= item.size
       THEN <<Head(sorted)>> \o InsertBySize(Tail(sorted), item)
       ELSE <<item>> \o sorted

RECURSIVE SortBySizeDesc(_)
\* candidates.sort((a, b) => b.size - a.size), a stable sort
SortBySizeDesc(items) ==
  IF items = <<>> THEN <<>>
  ELSE InsertBySize(SortBySizeDesc(SubSeq(items, 1, Len(items) - 1)), items[Len(items)])

\* the characters of the model's names, in collation order
Collation ==
  <<"_", ".", "/", ":", "0", "1", "2", "3", "4", "5", "6", "7", "8", "9",
    "a", "A", "b", "B", "c", "C", "d", "D", "e", "E", "f", "F", "g", "G",
    "h", "H", "i", "I", "j", "J", "k", "K", "l", "L", "m", "M", "n", "N",
    "o", "O", "p", "P", "q", "Q", "r", "R", "s", "S", "t", "T", "u", "U",
    "v", "V", "w", "W", "x", "X", "y", "Y", "z", "Z">>

CharRank(c) == CHOOSE i \in 1..Len(Collation) : Collation[i] = c

RECURSIVE StrLess(_, _)
\* a.localeCompare(b) < 0
StrLess(a, b) ==
  IF b = <<>> THEN FALSE
  ELSE IF a = <<>> THEN TRUE
  ELSE IF Head(a) = Head(b) THEN StrLess(Tail(a), Tail(b))
  ELSE CharRank(Head(a)) < CharRank(Head(b))

RECURSIVE SortPaths(_)
\* parts.sort((a, b) => a.localeCompare(b))
SortPaths(S) ==
  IF S = {} THEN <<>>
  ELSE LET least == CHOOSE p \in S :
                      \A q \in S \ {p} : StrLess(JoinSegments(p), JoinSegments(q))
       IN <<least>> \o SortPaths(S \ {least})

\* listExistingParts with its isFile test inverted
ListExistingPartsNoFiles(fl, ds, dir, baseName) ==
  LET prefix == baseName \o DotPart
  IN SortPaths({p \in Entries(fl, ds, dir) :
                  /\ p \notin DOMAIN fl
                  /\ StartsWith(Basename(p), prefix)
                  /\ MatchesPartPattern(Basename(p))})

\* listExistingParts
ListExistingParts(fl, ds, dir, baseName) ==
  LET prefix == baseName \o DotPart
  IN SortPaths({p \in Entries(fl, ds, dir) :
                  /\ p \in DOMAIN fl
                  /\ StartsWith(Basename(p), prefix)
                  /\ MatchesPartPattern(Basename(p))})

\* removeFileIfExists: unlink, an absent file (ENOENT) being no error
RemoveFileIfExists(fl, p) == RemoveFile(fl, p)

\* fs.promises.rename(from, to)
RenameFile(fl, from, to) == PutFile(RemoveFile(fl, from), to, fl[from])

(***************************************************************************)
(* Command line: argv is the sequence of options after the script name, a  *)
(* number what Number(...) made of the option's text.                      *)
(***************************************************************************)
Num(v) == [kind |-> "finite", v |-> v]
NaN == [kind |-> "NaN", v |-> 0]
Infinity == [kind |-> "Infinity", v |-> 0]

\* Number.isFinite
IsFinite(x) == x.kind = "finite"

\* x <= 0, false for NaN and for Infinity
LeqZero(x) == x.kind = "finite" /\ x.v <= 0

DryRunFlag == [name |-> "--dry-run", path |-> NoPath, num |-> NaN]
DirFlag(p) == [name |-> "--dir=", path |-> p, num |-> NaN]
MaxBytesFlag(x) == [name |-> "--max-bytes=", path |-> NoPath, num |-> x]
ChunkBytesFlag(x) == [name |-> "--chunk-bytes=", path |-> NoPath, num |-> x]

DefaultArgs ==
  [dir |-> DEFAULT_RELEASE_DIR, maxBytes |-> Num(DEFAULT_MAX_BYTES),
   chunkBytes |-> Num(DEFAULT_CHUNK_BYTES), dryRun |-> FALSE]

RECURSIVE ParseOptions(_, _)
\* parseArgs, the loop over argv: a later option overrides an earlier one
ParseOptions(a, av) ==
  IF av = <<>> THEN a
  ELSE LET value == Head(av)
           next == CASE value.name = "--dry-run" -> [a EXCEPT !.dryRun = TRUE]
                     [] value.name = "--dir=" -> [a EXCEPT !.dir = value.path]
                     [] value.name = "--max-bytes=" -> [a EXCEPT !.maxBytes = value.num]
                     [] value.name = "--chunk-bytes=" -> [a EXCEPT !.chunkBytes = value.num]
                     [] OTHER -> a
       IN ParseOptions(next, Tail(av))

\* parseArgs without its check of chunkBytes against maxBytes
ArgsErrorUnordered(a) ==
  IF ~IsFinite(a.maxBytes) \/ LeqZero(a.maxBytes) THEN "Invalid --max-bytes"
  ELSE IF ~IsFinite(a.chunkBytes) \/ LeqZero(a.chunkBytes) THEN "Invalid --chunk-bytes"
  ELSE "none"

\* parseArgs, the three checks: the message thrown, or "none"
ArgsError(a) ==
  IF ~IsFinite(a.maxBytes) \/ LeqZero(a.maxBytes) THEN "Invalid --max-bytes"
  ELSE IF ~IsFinite(a.chunkBytes) \/ LeqZero(a.chunkBytes) THEN "Invalid --chunk-bytes"
  ELSE IF a.chunkBytes.v > a.maxBytes.v THEN "--chunk-bytes must be <= --max-bytes"
  ELSE "none"

(***************************************************************************)
(* State.                                                                  *)
(***************************************************************************)
VARIABLES
  files,       \* path -> bytes of every regular file
  dirs,        \* the directories
  pc,          \* where main() stands
  run,         \* number of the run of main()
  argv,        \* the options of the run
  args,        \* what parseArgs made of argv
  exitCode,    \* process.exitCode
  error,       \* the error main() ended with, "none" without one
  candidates,  \* main's candidates, sorted
  idx,         \* position of the loop over candidates
  frame,       \* the call of splitFileFromSource: its parameters and locals,
               \* and the part files it holds open
  log,         \* console.log lines
  ops,         \* kinds of filesystem operation the run has issued
  start,       \* the filesystem when the run began, and how the run before ended
  snap,        \* the files as the walk of the run saw them
  written,     \* part files the run has opened for writing, in order
  moved,       \* candidates the run has renamed to backup, with their bytes
  retry        \* candidates the previous run renamed before it failed

vars == <<files, dirs, pc, run, argv, args, exitCode, error, candidates, idx,
          frame, log, ops, start, snap, written, moved, retry>>

NoFrame ==
  [sourcePath |-> NoPath, targetDir |-> NoPath, baseName |-> <<>>,
   chunkBytes |-> 0, bufferBytes |-> 0, dryRun |-> FALSE,
   existingParts |-> <<>>, input |-> FALSE, totalBytes |-> 0, offset |-> 0,
   part |-> 0, output |-> NoPath, remaining |-> 0, handles |-> {}]

\* splitFileFromSource(sourcePath, { targetDir, baseName, chunkBytes, bufferBytes, dryRun })
Call(sourcePath, targetDir, baseName, chunkBytes, bufferBytes, dryRun) ==
  [NoFrame EXCEPT !.sourcePath = sourcePath, !.targetDir = targetDir,
                  !.baseName = baseName, !.chunkBytes = chunkBytes,
                  !.bufferBytes = bufferBytes, !.dryRun = dryRun]

Line(tag, a, b, n) == [tag |-> tag, a |-> a, b |-> b, n |-> n]

(***************************************************************************)
(* Initial filesystems: release/a, and with it part files of an earlier    *)
(* split, a backup copy of an earlier run, or a second file in a           *)
(* subdirectory.                                                           *)
(***************************************************************************)
Bytes(tag, n) == [i \in 1..n |-> 10 * tag + i]

NameA == <<"a">>
NameB == <<"b">>
NameSub == <<"w">>
FileA == Join(DEFAULT_RELEASE_DIR, NameA)
FileB == Join(Join(DEFAULT_RELEASE_DIR, NameSub), NameB)
BackupOfA == BACKUP_ROOT \o <<ReleaseName, NameA>>
MissingDir == Join(REPO_ROOT, <<"n", "o", "n", "e">>)

StalePart(k) == Join(DEFAULT_RELEASE_DIR, NameA \o DotPart \o <<"0", DigitChars[k + 1]>>)

Scenarios ==
  {[a |-> n, stale |-> 0, backup |-> 0, b |-> 0] : n \in 0..MaxLen}
  \cup {[a |-> MaxLen, stale |-> k, backup |-> 0, b |-> 0] : k \in 1..MaxStale}
  \cup {[a |-> MaxLen, stale |-> 0, backup |-> MaxLen, b |-> 0],
        [a |-> MaxLen, stale |-> 0, backup |-> 0, b |-> MaxLen],
        [a |-> MaxLen, stale |-> 0, backup |-> 0, b |-> MaxLen + 1]}

ScenarioFiles(sc) ==
  LET paths == {FileA} \cup {StalePart(k) : k \in 1..sc.stale}
               \cup (IF sc.backup > 0 THEN {BackupOfA} ELSE {})
               \cup (IF sc.b > 0 THEN {FileB} ELSE {})
  IN [p \in paths |->
        IF p = FileA THEN Bytes(1, sc.a)
        ELSE IF p = FileB THEN Bytes(2, sc.b)
        ELSE IF p = BackupOfA THEN Bytes(7, sc.backup)
        ELSE Bytes(9, MaxLen)]

DirsOf(fl) == Ancestors(DEFAULT_RELEASE_DIR) \cup UNION {Ancestors(Dirname(p)) : p \in DOMAIN fl}

SmallMax == MaxLen - 1

Argvs ==
  {<<MaxBytesFlag(Num(SmallMax)), ChunkBytesFlag(Num(c))>> \o d \o r :
     c \in {1, SmallMax}, d \in {<<>>, <<DryRunFlag>>}, r \in {<<>>, <<DirFlag(REPO_ROOT)>>}}
  \cup {<<>>,
        <<DirFlag(MissingDir)>>,
        <<MaxBytesFlag(Num(SmallMax)), ChunkBytesFlag(Num(SmallMax + 1))>>,
        <<MaxBytesFlag(NaN)>>,
        <<MaxBytesFlag(Infinity)>>,
        <<MaxBytesFlag(Num(0))>>,
        <<MaxBytesFlag(Num(SmallMax)), ChunkBytesFlag(Infinity)>>,
        <<MaxBytesFlag(Num(SmallMax)), ChunkBytesFlag(Num(0))>>,
        <<ChunkBytesFlag(Num(1)), ChunkBytesFlag(Num(-1))>>}

InitRun ==
  /\ pc = "parseArgs"
  /\ run = 1
  /\ args = DefaultArgs
  /\ exitCode = 0
  /\ error = "none"
  /\ candidates = <<>>
  /\ idx = 0
  /\ frame = NoFrame
  /\ log = <<>>
  /\ ops = {}
  /\ start = [files |-> files, dirs |-> dirs, after |-> "none"]
  /\ snap = <<>>
  /\ written = <<>>
  /\ moved = {}
  /\ retry = {}

Init ==
  /\ \E sc \in Scenarios : files = ScenarioFiles(sc)
  /\ dirs = DirsOf(files)
  /\ argv \in Argvs
  /\ InitRun

(***************************************************************************)
(* main().                                                                 *)
(***************************************************************************)
\* main().catch: the error is printed and process.exitCode set; the
\* finally blocks of splitFileFromSource have closed its handles
Throw(e) ==
  /\ pc' = "exit"
  /\ exitCode' = 1
  /\ error' = e
  /\ frame' = [frame EXCEPT !.input = FALSE, !.output = NoPath,
                            !.handles = @ \ {frame.output}]

\* parseArgs(process.argv)
ParseArgs ==
  /\ pc = "parseArgs"
  /\ args' = ParseOptions(DefaultArgs, argv)
  /\ IF ArgsError(args') = "none"
     THEN pc' = "existsSync" /\ UNCHANGED <<exitCode, error, frame>>
     ELSE Throw(ArgsError(args'))
  /\ UNCHANGED <<files, dirs, run, argv, candidates, idx, log, ops, start,
                 snap, written, moved, retry>>

\* if (!fs.existsSync(dir)) { skip }
CheckDir ==
  /\ pc = "existsSync"
  /\ ops' = ops \cup {"existsSync"}
  /\ IF Exists(files, dirs, args.dir)
     THEN pc' = "walk" /\ UNCHANGED log
     ELSE pc' = "exit" /\ log' = Append(log, Line("skip", args.dir, NoPath, 0))
  /\ UNCHANGED <<files, dirs, run, argv, args, exitCode, error, candidates,
                 idx, frame, start, snap, written, moved, retry>>

\* the selection taking a file of the size of the ceiling as well
WalkedCandidatesInclusive(fl, ds, dir, maxBytes) ==
  LET kept == {p \in DOMAIN fl : ~IsPartFile(p) /\ Len(fl[p]) >= maxBytes}
      tree == [p \in kept |-> fl[p]]
  IN {SortBySizeDesc([i \in 1..Len(order) |->
                        [filePath |-> order[i], size |-> Len(fl[order[i]])]]) :
        order \in WalkFiles(tree, ds, dir)}

\* the candidate lists main can end up with: walkFiles, the per-file filter,
\* the sort. The filter looks at one file at a time, so the files it drops
\* are left out before the readdir orders are enumerated; the orders of the
\* files it keeps are the same.
WalkedCandidates(fl, ds, dir, maxBytes) ==
  LET kept == {p \in DOMAIN fl : ~IsPartFile(p) /\ Len(fl[p]) > maxBytes}
      tree == [p \in kept |-> fl[p]]
  IN {SortBySizeDesc(SelectCandidates(order, fl, maxBytes)) : order \in WalkFiles(tree, ds, dir)}

\* walkFiles(dir), the stat of every file that is no part file, the sort
Scan ==
  /\ pc = "walk"
  /\ IF args.dir \notin dirs
     THEN /\ Throw("ENOTDIR")
          /\ ops' = ops \cup {"readdir"}
          /\ UNCHANGED <<candidates, idx, log, snap>>
     ELSE \E found \in WalkedCandidates(files, dirs, args.dir, args.maxBytes.v) :
               /\ candidates' = found
               /\ snap' = files
               /\ ops' = ops \cup {"readdir"}
                         \cup (IF \E p \in DOMAIN files : IsUnder(args.dir, p) /\ ~IsPartFile(p)
                               THEN {"stat"} ELSE {})
               /\ IF found = <<>>
                  THEN /\ pc' = "exit"
                       /\ log' = Append(log, Line("ok", NoPath, NoPath, 0))
                       /\ UNCHANGED idx
                  ELSE /\ pc' = "item"
                       /\ idx' = 1
                       /\ log' = Append(log, Line("found", NoPath, NoPath, Len(found)))
               /\ UNCHANGED <<exitCode, error, frame>>
  /\ UNCHANGED <<files, dirs, run, argv, args, start, written, moved, retry>>

\* the candidate the loop of main stands at
Item == candidates[idx]

\* for (const item of candidates): the loop is over
Finish ==
  /\ pc = "item"
  /\ idx > Len(candidates)
  /\ pc' = "exit"
  /\ log' = Append(log, Line("done", NoPath, NoPath, 0))
  /\ UNCHANGED <<files, dirs, run, argv, args, exitCode, error, candidates,
                 idx, frame, ops, start, snap, written, moved, retry>>

\* the call of splitFileFromSource that main makes for its candidate
CallSplit(backupPath) ==
  Call(backupPath, Dirname(Item.filePath), Basename(Item.filePath),
       args.chunkBytes.v, DEFAULT_BUFFER_BYTES, args.dryRun)

\* moveToBackup with dryRun: the move is printed, and main calls the split
DryRunMove ==
  /\ pc = "item"
  /\ idx <= Len(candidates)
  /\ args.dryRun
  /\ log' = log \o <<Line("split", Item.filePath, NoPath, Item.size),
                     Line("dry-run move", Item.filePath, GetBackupPath(Item.filePath), 0)>>
  /\ frame' = CallSplit(GetBackupPath(Item.filePath))
  /\ pc' = "split"
  /\ UNCHANGED <<files, dirs, run, argv, args, exitCode, error, candidates,
                 idx, ops, start, snap, written, moved, retry>>

\* moveToBackup: ensureDir(backupDir)
EnsureDir ==
  /\ pc = "item"
  /\ idx <= Len(candidates)
  /\ ~args.dryRun
  /\ LET backupDir == Dirname(GetBackupPath(Item.filePath))
     IN /\ ops' = ops \cup {"mkdir"}
        /\ log' = Append(log, Line("split", Item.filePath, NoPath, Item.size))
        /\ IF \E d \in Ancestors(backupDir) : d \in DOMAIN files
           THEN Throw("EEXIST") /\ UNCHANGED dirs
           ELSE /\ dirs' = dirs \cup Ancestors(backupDir)
                /\ pc' = "unlinkBackup"
                /\ UNCHANGED <<exitCode, error, frame>>
  /\ UNCHANGED <<files, run, argv, args, candidates, idx, start, snap, written,
                 moved, retry>>

\* moveToBackup: removeFileIfExists(backupPath)
RemoveBackup ==
  /\ pc = "unlinkBackup"
  /\ LET backupPath == GetBackupPath(Item.filePath)
     IN /\ ops' = ops \cup {"unlink"}
        /\ IF backupPath \in dirs
           THEN Throw("EISDIR") /\ UNCHANGED files
           ELSE /\ files' = RemoveFileIfExists(files, backupPath)
                /\ pc' = "rename"
                /\ UNCHANGED <<exitCode, error, frame>>
  /\ UNCHANGED <<dirs, run, argv, args, candidates, idx, log, start, snap,
                 written, moved, retry>>

\* moveToBackup: fs.promises.rename(filePath, backupPath); main then calls the split
Rename ==
  /\ pc = "rename"
  /\ LET filePath == Item.filePath
         backupPath == GetBackupPath(filePath)
     IN /\ ops' = ops \cup {"rename"}
        /\ IF filePath \notin DOMAIN files
           THEN Throw("ENOENT") /\ UNCHANGED <<files, log, moved>>
           ELSE /\ files' = RenameFile(files, filePath, backupPath)
                /\ log' = Append(log, Line("moved", filePath, backupPath, 0))
                /\ moved' = moved \cup {[filePath |-> filePath, bytes |-> files[filePath]]}
                /\ frame' = CallSplit(backupPath)
                /\ pc' = "split"
                /\ UNCHANGED <<exitCode, error>>
  /\ UNCHANGED <<dirs, run, argv, args, candidates, idx, start, snap, written, retry>>

(***************************************************************************)
(* splitFileFromSource.                                                    *)
(***************************************************************************)
\* path.join(targetDir, partFileName)
PartPath(f) == Join(f.targetDir, PartFileName(f.baseName, f.part))

\* the deletion of the existing parts not asking for dryRun
AfterListAlways(parts, dryRun) ==
  IF Len(parts) > 0 THEN "removeParts" ELSE "openInput"

\* the existing parts never being deleted
AfterListNever(parts, dryRun) == "openInput"

\* if (existingParts.length > 0) { if (!dryRun) { ... } }
AfterList(parts, dryRun) ==
  IF Len(parts) > 0 /\ ~dryRun THEN "removeParts" ELSE "openInput"

\* const existingParts = await listExistingParts(targetDir, baseName)
SplitList ==
  /\ pc = "split"
  /\ ops' = ops \cup {"readdir"}
  /\ IF frame.targetDir \notin dirs
     THEN Throw("ENOENT")
     ELSE LET parts == ListExistingParts(files, dirs, frame.targetDir, frame.baseName)
          IN /\ frame' = [frame EXCEPT !.existingParts = parts]
             /\ pc' = AfterList(parts, frame.dryRun)
             /\ UNCHANGED <<exitCode, error>>
  /\ UNCHANGED <<files, dirs, run, argv, args, candidates, idx, log, start,
                 snap, written, moved, retry>>

\* for (const partPath of existingParts) await removeFileIfExists(partPath)
SplitRemovePart ==
  /\ pc = "removeParts"
  /\ files' = RemoveFileIfExists(files, Head(frame.existingParts))
  /\ frame' = [frame EXCEPT !.existingParts = Tail(frame.existingParts)]
  /\ pc' = IF Tail(frame.existingParts) = <<>> THEN "openInput" ELSE "removeParts"
  /\ ops' = ops \cup {"unlink"}
  /\ UNCHANGED <<dirs, run, argv, args, exitCode, error, candidates, idx, log,
                 start, snap, written, moved, retry>>

\* fs.promises.open(sourcePath, 'r'), input.stat(), offset = 0, part = 1
SplitOpenInput ==
  /\ pc = "openInput"
  /\ ops' = ops \cup {"open"}
  /\ IF frame.sourcePath \notin DOMAIN files
     THEN Throw("ENOENT")
     ELSE /\ frame' = [frame EXCEPT !.input = TRUE,
                                    !.totalBytes = Len(files[frame.sourcePath]),
                                    !.offset = 0, !.part = 1]
          /\ pc' = "loop"
          /\ UNCHANGED <<exitCode, error>>
  /\ UNCHANGED <<files, dirs, run, argv, args, candidates, idx, log, start,
                 snap, written, moved, retry>>

\* the loop condition taking offset = totalBytes to leave bytes to split
MoreToSplitInclusive(f) == f.offset <= f.totalBytes

\* while (offset < totalBytes)
MoreToSplit(f) == f.offset < f.totalBytes

\* the body of the loop with dryRun: the part is printed
SplitDryRunPart ==
  /\ pc = "loop"
  /\ MoreToSplit(frame)
  /\ frame.dryRun
  /\ LET end == Min(frame.offset + frame.chunkBytes, frame.totalBytes)
     IN /\ log' = Append(log, Line("dry-run split", frame.sourcePath, PartPath(frame),
                                   end - frame.offset))
        /\ frame' = [frame EXCEPT !.offset = end, !.part = frame.part + 1]
  /\ UNCHANGED <<files, dirs, pc, run, argv, args, exitCode, error, candidates,
                 idx, ops, start, snap, written, moved, retry>>

\* the body of the loop: fs.promises.open(partPath, 'w'), remaining = ...
SplitOpenPart ==
  /\ pc = "loop"
  /\ MoreToSplit(frame)
  /\ ~frame.dryRun
  /\ ops' = ops \cup {"open"}
  /\ IF PartPath(frame) \in dirs
     THEN Throw("EISDIR") /\ UNCHANGED <<files, written>>
     ELSE /\ files' = PutFile(files, PartPath(frame), <<>>)
          /\ written' = Append(written, PartPath(frame))
          /\ frame' = [frame EXCEPT
                         !.output = PartPath(frame),
                         !.handles = @ \cup {PartPath(frame)},
                         !.remaining = Min(frame.chunkBytes, frame.totalBytes - frame.offset)]
          /\ pc' = "copy"
          /\ UNCHANGED <<exitCode, error>>
  /\ UNCHANGED <<dirs, run, argv, args, candidates, idx, log, start, snap,
                 moved, retry>>

\* the bytes input.read may return for a request of readSize bytes at offset:
\* at least one while the file has any there, never more than asked for
ReadCounts(fl, f, readSize) ==
  LET size == IF f.sourcePath \in DOMAIN fl THEN Len(fl[f.sourcePath]) ELSE 0
      most == Min(readSize, size - f.offset)
  IN IF most <= 0 THEN {0} ELSE 1..most

\* the body of while (remaining > 0) for a read that returned bytesRead bytes,
\* offset and remaining moving by advance
CopyBytes(bytesRead, advance) ==
  IF bytesRead <= 0
  THEN \* break, finally output.close(), part++
       /\ frame' = [frame EXCEPT !.output = NoPath, !.remaining = 0,
                                 !.handles = @ \ {frame.output},
                                 !.part = frame.part + 1]
       /\ pc' = "loop"
       /\ ops' = ops \cup {"read"}
       /\ UNCHANGED files
  ELSE /\ files' = [files EXCEPT ![frame.output] =
                      @ \o SubSeq(files[frame.sourcePath], frame.offset + 1,
                                  frame.offset + bytesRead)]
       /\ frame' = [frame EXCEPT !.offset = frame.offset + advance,
                                 !.remaining = frame.remaining - advance]
       /\ ops' = ops \cup {"read", "write"}
       /\ UNCHANGED pc

\* SplitCopy taking every read to have filled the request
SplitCopyWholeRequest ==
  /\ pc = "copy"
  /\ frame.remaining > 0
  /\ LET readSize == Min(frame.bufferBytes, frame.remaining)
     IN \E bytesRead \in ReadCounts(files, frame, readSize) : CopyBytes(bytesRead, readSize)
  /\ UNCHANGED <<dirs, run, argv, args, exitCode, error, candidates, idx, log,
                 start, snap, written, moved, retry>>

\* the copy loop asking for all that is missing from the part, whatever the buffer
SplitCopyUnbuffered ==
  /\ pc = "copy"
  /\ frame.remaining > 0
  /\ LET readSize == frame.remaining
     IN \E bytesRead \in ReadCounts(files, frame, readSize) : CopyBytes(bytesRead, bytesRead)
  /\ UNCHANGED <<dirs, run, argv, args, exitCode, error, candidates, idx, log,
                 start, snap, written, moved, retry>>

\* while (remaining > 0): input.read, output.write, offset += bytesRead,
\* remaining -= bytesRead
SplitCopy ==
  /\ pc = "copy"
  /\ frame.remaining > 0
  /\ LET readSize == Min(frame.bufferBytes, frame.remaining)
     IN \E bytesRead \in ReadCounts(files, frame, readSize) : CopyBytes(bytesRead, bytesRead)
  /\ UNCHANGED <<dirs, run, argv, args, exitCode, error, candidates, idx, log,
                 start, snap, written, moved, retry>>

\* the part left open: part++ without output.close()
SplitClosePartLeak ==
  /\ pc = "copy"
  /\ frame.remaining = 0
  /\ frame' = [frame EXCEPT !.output = NoPath, !.part = frame.part + 1]
  /\ pc' = "loop"
  /\ UNCHANGED <<files, dirs, run, argv, args, exitCode, error, candidates,
                 idx, log, ops, start, snap, written, moved, retry>>

\* remaining = 0: finally output.close(), part++
SplitClosePart ==
  /\ pc = "copy"
  /\ frame.remaining = 0
  /\ frame' = [frame EXCEPT !.output = NoPath, !.part = frame.part + 1,
                            !.handles = @ \ {frame.output}]
  /\ pc' = "loop"
  /\ UNCHANGED <<files, dirs, run, argv, args, exitCode, error, candidates,
                 idx, log, ops, start, snap, written, moved, retry>>

\* the loop is over: finally input.close(), and main goes to its next candidate
SplitReturn ==
  /\ pc = "loop"
  /\ ~MoreToSplit(frame)
  /\ frame' = [frame EXCEPT !.input = FALSE]
  /\ idx' = idx + 1
  /\ pc' = "item"
  /\ UNCHANGED <<files, dirs, run, argv, args, exitCode, error, candidates,
                 log, ops, start, snap, written, moved, retry>>

(***************************************************************************)
(* Faults and further runs.                                                *)
(***************************************************************************)
\* the filesystem operation the run is about to issue fails (EACCES, ENOSPC,
\* EIO), or the process is killed there: the run ends, nothing is undone
FaultPoint ==
  \/ pc \in {"walk", "unlinkBackup", "rename", "split", "removeParts",
             "openInput", "copy"}
  \/ pc = "item" /\ idx <= Len(candidates) /\ ~args.dryRun
  \/ pc = "loop" /\ MoreToSplit(frame) /\ ~frame.dryRun

\* the failing operation is skipped over: main goes on with its next candidate
FailSkips ==
  /\ FaultPoint
  /\ exitCode' = 1
  /\ error' = "fault"
  /\ frame' = [frame EXCEPT !.input = FALSE, !.output = NoPath,
                            !.handles = @ \ {frame.output}]
  /\ IF pc = "walk"
     THEN pc' = "exit" /\ UNCHANGED idx
     ELSE pc' = "item" /\ idx' = idx + 1
  /\ UNCHANGED <<files, dirs, run, argv, args, candidates, log, ops, start,
                 snap, written, moved, retry>>

Fail ==
  /\ FaultPoint
  /\ Throw("fault")
  /\ UNCHANGED <<files, dirs, run, argv, args, candidates, idx, log, ops,
                 start, snap, written, moved, retry>>

\* the state in which a further run of main() starts with the options av
StartRun(av) ==
  /\ pc \in {"exit", "merged"}
  /\ run < MaxRuns
  /\ run' = run + 1
  /\ argv' = av
  /\ pc' = "parseArgs"
  /\ args' = DefaultArgs
  /\ exitCode' = 0
  /\ error' = "none"
  /\ candidates' = <<>>
  /\ idx' = 0
  /\ frame' = NoFrame
  /\ log' = <<>>
  /\ ops' = {}
  /\ start' = [files |-> files, dirs |-> dirs,
               after |-> IF pc = "merged" THEN "merged"
                         ELSE IF exitCode = 0 THEN "ok" ELSE "failed"]
  /\ snap' = <<>>
  /\ written' = <<>>
  /\ moved' = {}
  /\ retry' = IF exitCode = 1 THEN moved ELSE {}
  /\ UNCHANGED <<files, dirs>>

\* the same command is run again
Rerun == StartRun(argv)

Split ==
  \/ SplitList
  \/ SplitRemovePart
  \/ SplitOpenInput
  \/ SplitDryRunPart
  \/ SplitOpenPart
  \/ SplitCopy
  \/ SplitClosePart
  \/ SplitReturn

Main ==
  \/ ParseArgs
  \/ CheckDir
  \/ Scan
  \/ Finish
  \/ DryRunMove
  \/ EnsureDir
  \/ RemoveBackup
  \/ Rename

Next == Main \/ Split \/ Fail \/ Rerun

Spec == Init /\ [][Next]_vars

(***************************************************************************)
(* splitFileFromSource alone: a source of every size up to MaxSrcLen at    *)
(* the backup path, every chunk and buffer size, part files of an earlier  *)
(* split in the target directory.                                          *)
(***************************************************************************)
InitSplit ==
  /\ \E n \in 0..MaxSrcLen, k \in 0..MaxStale :
       /\ files = [p \in {BackupOfA} \cup {StalePart(i) : i \in 1..k} |->
                     IF p = BackupOfA THEN Bytes(1, n)
                     ELSE <<90 + (CHOOSE i \in 1..k : StalePart(i) = p)>>]
       /\ candidates = <<[filePath |-> FileA, size |-> n]>>
       /\ snap = [p \in {FileA} |-> Bytes(1, n)]
       /\ moved = {[filePath |-> FileA, bytes |-> Bytes(1, n)]}
  /\ dirs = DirsOf(files)
  /\ \E c \in 1..MaxChunk, b \in 1..MaxBuf, d \in BOOLEAN :
       /\ args = [dir |-> DEFAULT_RELEASE_DIR, maxBytes |-> Num(c),
                  chunkBytes |-> Num(c), dryRun |-> d]
       /\ frame = [NoFrame EXCEPT !.sourcePath = BackupOfA,
                                  !.targetDir = DEFAULT_RELEASE_DIR,
                                  !.baseName = NameA, !.chunkBytes = c,
                                  !.bufferBytes = b, !.dryRun = d]
  /\ argv = <<>>
  /\ pc = "split"
  /\ run = 1
  /\ exitCode = 0
  /\ error = "none"
  /\ idx = 1
  /\ log = <<>>
  /\ ops = {}
  /\ start = [files |-> files, dirs |-> dirs, after |-> "none"]
  /\ written = <<>>
  /\ retry = {}

NextSplit == Split \/ Fail

SpecSplit == InitSplit /\ [][NextSplit]_vars

(***************************************************************************)
(* What the properties speak of.                                           *)
(***************************************************************************)
DigitValue(c) == (CHOOSE i \in 1..10 : DigitChars[i] = c) - 1

\* name is base, ".part" and exactly two digits
IsPartNameOf(name, base) ==
  /\ Len(name) = Len(base) + 7
  /\ SubSeq(name, 1, Len(base) + 5) = base \o DotPart
  /\ IsDigit(name[Len(name) - 1])
  /\ IsDigit(name[Len(name)])

\* the number NN of a part name
PartNumber(name) == 10 * DigitValue(name[Len(name) - 1]) + DigitValue(name[Len(name)])

\* the files base.partNN of directory dir
PartsInDir(fl, dir, base) ==
  {p \in DOMAIN fl : Len(p) = Len(dir) + 1 /\ Dirname(p) = dir /\ IsPartNameOf(Basename(p), base)}

RECURSIVE ConcatByNumber(_, _)
\* the bytes of the part files S in the order of their numbers
ConcatByNumber(fl, S) ==
  IF S = {} THEN <<>>
  ELSE LET first == CHOOSE p \in S :
                      \A q \in S : PartNumber(Basename(p)) <= PartNumber(Basename(q))
       IN fl[first] \o ConcatByNumber(fl, S \ {first})

\* the split has returned to main without an error
SplitReturned == pc = "item" /\ error = "none" /\ frame.sourcePath # NoPath

\* the part files the run has opened for the candidate of frame f
WrittenFor(f) ==
  {written[i] : i \in {j \in 1..Len(written) :
                         /\ Dirname(written[j]) = f.targetDir
                         /\ IsPartNameOf(Basename(written[j]), f.baseName)}}

CeilDiv(a, b) == (a + b - 1) \div b

(***************************************************************************)
(* C3: when a split that is no dry run has completed, the part files of    *)
(* the base name in the target directory, concatenated in the order of     *)
(* their numbers, are the bytes of the source: nothing is padded, cut,     *)
(* left out or repeated, whatever the source, chunk and buffer sizes and   *)
(* however short the reads were.                                           *)
(***************************************************************************)
C3_ByteExact ==
  (SplitReturned /\ ~frame.dryRun) =>
    ConcatByNumber(files, PartsInDir(files, frame.targetDir, frame.baseName))
      = files[frame.sourcePath]

\* a split of several chunks has completed with a buffer smaller than the
\* chunk and a last part shorter than the others
C3_Witness ==
  /\ SplitReturned
  /\ ~frame.dryRun
  /\ frame.bufferBytes < frame.chunkBytes
  /\ frame.totalBytes > frame.chunkBytes
  /\ frame.totalBytes % frame.chunkBytes # 0
  /\ Len(written) >= 2

(***************************************************************************)
(* C4: a completed split of a source of S bytes with chunk size C has      *)
(* created exactly N = ceil(S / C) part files, none when S = 0, each of C  *)
(* bytes but the last, which has S - C * (N - 1); and no part file that    *)
(* has been closed is empty.                                               *)
(***************************************************************************)
C4_PartCountAndSizes ==
  /\ (SplitReturned /\ ~frame.dryRun) =>
       LET S == Len(files[frame.sourcePath])
           C == args.chunkBytes.v
           N == CeilDiv(S, C)
       IN /\ Len(written) = N
          /\ Cardinality(PartsInDir(files, frame.targetDir, frame.baseName)) = N
          /\ \A i \in 1..N :
               /\ written[i] \in DOMAIN files
               /\ Len(files[written[i]]) = IF i < N THEN C ELSE S - C * (N - 1)
  /\ error = "none" =>
       \A i \in 1..Len(written) :
         written[i] # frame.output => written[i] \in DOMAIN files /\ Len(files[written[i]]) > 0

\* a completed split whose source is a multiple of the chunk size, in two parts
C4_Witness ==
  /\ SplitReturned
  /\ ~frame.dryRun
  /\ frame.totalBytes = 2 * args.chunkBytes.v
  /\ Len(written) = 2

(***************************************************************************)
(* C5: in a split that is no dry run, once the first new part file has     *)
(* been created the part files of the base name in the target directory    *)
(* are the newly written ones only, and when the split has completed they  *)
(* are exactly the newly written ones: no part file of an earlier split    *)
(* is left, whatever their number was.                                     *)
(***************************************************************************)
C5_NoStaleParts ==
  ~frame.dryRun =>
    /\ WrittenFor(frame) # {} =>
         PartsInDir(files, frame.targetDir, frame.baseName) = WrittenFor(frame)
    /\ SplitReturned =>
         PartsInDir(files, frame.targetDir, frame.baseName) = WrittenFor(frame)

\* a split has completed with fewer parts than the earlier split had left
C5_Witness ==
  /\ SplitReturned
  /\ ~frame.dryRun
  /\ Cardinality(PartsInDir(start.files, frame.targetDir, frame.baseName)) > Len(written)
  /\ Len(written) >= 1

\* the walk and the selection of the run have completed
Scanned == \E i \in 1..Len(log) : log[i].tag \in {"ok", "found"}

\* the run has renamed the candidate c to its backup path
Relocated(c) == \E m \in moved : m.filePath = c.filePath

\* the part files the run has opened for the candidate c
PartsWrittenFor(c) ==
  {written[i] : i \in {j \in 1..Len(written) :
                         /\ Dirname(written[j]) = Dirname(c.filePath)
                         /\ IsPartNameOf(Basename(written[j]), Basename(c.filePath))}}

(***************************************************************************)
(* C1: when the run before failed after it had renamed a candidate to its  *)
(* backup path, and the same command has been run again and has completed  *)
(* without error, the part files of that candidate in its original         *)
(* directory concatenate to its original bytes.                            *)
(***************************************************************************)
C1_RetrySafe ==
  (pc = "exit" /\ error = "none") =>
    \A c \in retry :
      ConcatByNumber(files, PartsInDir(files, Dirname(c.filePath), Basename(c.filePath)))
        = c.bytes

(***************************************************************************)
(* C2: in every state of a run that is no dry run, also after a failure,   *)
(* the bytes each candidate had when it was selected are at its source     *)
(* path while the run has not renamed it, and at its backup path from the  *)
(* rename on.                                                              *)
(***************************************************************************)
C2_NoLoss ==
  (~args.dryRun /\ Scanned) =>
    \A i \in 1..Len(candidates) :
      LET c == candidates[i]
          at == IF Relocated(c) THEN GetBackupPath(c.filePath) ELSE c.filePath
      IN at \in DOMAIN files /\ files[at] = snap[c.filePath]

(***************************************************************************)
(* C9: in a run that is no dry run, whenever a part file has been created  *)
(* for a candidate D/B, no file D/B exists, up to the end of the run.      *)
(***************************************************************************)
C9_OriginalAbsent ==
  ~args.dryRun =>
    \A i \in 1..Len(candidates) :
      PartsWrittenFor(candidates[i]) # {} => candidates[i].filePath \notin DOMAIN files

(***************************************************************************)
(* C7: in a dry run no file and no directory is created, moved, truncated  *)
(* or deleted, at any point of the run, and the candidates of the run are  *)
(* the files below the root directory that a run selects: those larger     *)
(* than the ceiling that are no part files.                                *)
(***************************************************************************)
C7_DryRunNoMutation ==
  args.dryRun =>
    /\ files = start.files
    /\ dirs = start.dirs
    /\ Scanned =>
         {candidates[i].filePath : i \in 1..Len(candidates)}
           = {p \in DOMAIN start.files :
                /\ IsUnder(args.dir, p)
                /\ ~IsPartFile(p)
                /\ Len(start.files[p]) > args.maxBytes.v}

\* a dry run has got past the listing of the part files of an earlier split
C7_Witness ==
  /\ args.dryRun
  /\ pc = "openInput"
  /\ Len(frame.existingParts) > 0
  /\ Len(candidates) > 0

\* the lines a dry run has to print for the candidate c split into chunks of chunkBytes
PlanOf(c, chunkBytes) ==
  <<Line("dry-run move", c.filePath, GetBackupPath(c.filePath), 0)>>
  \o [k \in 1..CeilDiv(c.size, chunkBytes) |->
        Line("dry-run split", GetBackupPath(c.filePath),
             Join(Dirname(c.filePath), PartFileName(Basename(c.filePath), k)),
             IF k < CeilDiv(c.size, chunkBytes) THEN chunkBytes
             ELSE c.size - chunkBytes * (CeilDiv(c.size, chunkBytes) - 1))]

RECURSIVE PlanOfAll(_, _)
PlanOfAll(cs, chunkBytes) ==
  IF cs = <<>> THEN <<>>
  ELSE PlanOf(Head(cs), chunkBytes) \o PlanOfAll(Tail(cs), chunkBytes)

IsPlanLine(l) == l.tag \in {"dry-run move", "dry-run split"}

(***************************************************************************)
(* C8: a dry run that has found a candidate, and in which no filesystem    *)
(* operation is made to fail, ends without an error, and has then printed  *)
(* for every candidate the move to its backup path and every part a run    *)
(* would write, with the part's name and size.                             *)
(***************************************************************************)
C8_DryRunReportsPlan ==
  (args.dryRun /\ Scanned /\ Len(candidates) > 0 /\ error # "fault") =>
    /\ error = "none"
    /\ pc = "exit" => SelectSeq(log, IsPlanLine) = PlanOfAll(candidates, args.chunkBytes.v)

\* greater than zero, as the claim has it
IsPositive(x) == x.kind = "Infinity" \/ (x.kind = "finite" /\ x.v > 0)

\* the configuration the claim calls an error
ConfigInvalid(a) ==
  \/ ~IsFinite(a.maxBytes) \/ ~IsPositive(a.maxBytes)
  \/ ~IsFinite(a.chunkBytes) \/ ~IsPositive(a.chunkBytes)
  \/ a.chunkBytes.v > a.maxBytes.v

(***************************************************************************)
(* C10: with a chunk size above the ceiling, or a size that is not finite  *)
(* or not above zero, the run issues no filesystem operation and changes   *)
(* nothing, and it ends with exit code 1.                                  *)
(***************************************************************************)
C10_ConfigErrorBeforeIO ==
  ConfigInvalid(ParseOptions(DefaultArgs, argv)) =>
    /\ ops = {}
    /\ files = start.files /\ dirs = start.dirs
    /\ pc \in {"parseArgs", "exit"}
    /\ pc = "exit" => exitCode = 1 /\ error # "none"

\* a run given a chunk size above its ceiling has ended
C10_Witness ==
  /\ pc = "exit"
  /\ exitCode = 1
  /\ IsFinite(args.maxBytes) /\ IsFinite(args.chunkBytes)
  /\ args.chunkBytes.v > args.maxBytes.v
  /\ args.maxBytes.v > 0

(***************************************************************************)
(* The example of the 210 unit source: release/app.bin alone, runs with    *)
(* ceiling 100 and chunk size 95, with chunk size 150, and in between the  *)
(* merge of the release directory's README.  No operation is made to fail. *)
(***************************************************************************)
AppBin == <<"a", "p", "p", ".", "b", "i", "n">>
ExampleFile == Join(DEFAULT_RELEASE_DIR, AppBin)
ExampleBytes == [i \in 1..210 |-> i]

ExampleArgvs ==
  {<<MaxBytesFlag(Num(100)), ChunkBytesFlag(Num(95))>>,
   <<MaxBytesFlag(Num(100)), ChunkBytesFlag(Num(95)), DryRunFlag>>,
   <<MaxBytesFlag(Num(100)), ChunkBytesFlag(Num(150))>>,
   <<MaxBytesFlag(Num(150)), ChunkBytesFlag(Num(150))>>}

RECURSIVE ConcatInOrder(_, _)
ConcatInOrder(fl, paths) ==
  IF paths = <<>> THEN <<>> ELSE fl[Head(paths)] \o ConcatInOrder(fl, Tail(paths))

\* cat release/app.bin.part* > release/app.bin, between two runs
Merge ==
  /\ pc = "exit"
  /\ ExampleFile \notin DOMAIN files
  /\ LET parts == {p \in DOMAIN files :
                     /\ Dirname(p) = DEFAULT_RELEASE_DIR
                     /\ StartsWith(Basename(p), AppBin \o DotPart)}
     IN /\ parts # {}
        /\ files' = PutFile(files, ExampleFile, ConcatInOrder(files, SortPaths(parts)))
  /\ pc' = "merged"
  /\ UNCHANGED <<dirs, run, argv, args, exitCode, error, candidates, idx,
                 frame, log, ops, start, snap, written, moved, retry>>

InitExample ==
  /\ files = [p \in {ExampleFile} |-> ExampleBytes]
  /\ dirs = DirsOf(files)
  /\ argv \in ExampleArgvs
  /\ InitRun

NextExample == Main \/ Split \/ Merge \/ \E av \in ExampleArgvs : StartRun(av)

SpecExample == InitExample /\ [][NextExample]_vars

RECURSIVE SizesByNumber(_, _)
\* the sizes of the part files S in the order of their numbers
SizesByNumber(fl, S) ==
  IF S = {} THEN <<>>
  ELSE LET first == CHOOSE p \in S :
                      \A q \in S : PartNumber(Basename(p)) <= PartNumber(Basename(q))
       IN <<Len(fl[first])>> \o SizesByNumber(fl, S \ {first})

ExampleParts(fl) == PartsInDir(fl, DEFAULT_RELEASE_DIR, AppBin)

\* the release directory as the first run of the example leaves it:
\* app.bin.part01 (95), app.bin.part02 (95), app.bin.part03 (20)
FirstRunSplit(fl) ==
  /\ {PartNumber(Basename(p)) : p \in ExampleParts(fl)} = {1, 2, 3}
  /\ SizesByNumber(fl, ExampleParts(fl)) = <<95, 95, 20>>

\* a run with chunk size 150, and a ceiling that admits it, that began after
\* the first run's split has ended
SecondRunEnded ==
  /\ FirstRunSplit(start.files)
  /\ pc = "exit"
  /\ ~args.dryRun
  /\ args.chunkBytes = Num(150)
  /\ args.maxBytes.v >= 150

(***************************************************************************)
(* C6: a run with chunk size 150 that begins with the part01 to part03 of   *)
(* the first run in place ends with part01 (150) and part02 (60) as the    *)
(* part files of the source.                                               *)
(***************************************************************************)
C6_SecondRunResplits ==
  SecondRunEnded =>
    /\ {PartNumber(Basename(p)) : p \in ExampleParts(files)} = {1, 2}
    /\ SizesByNumber(files, ExampleParts(files)) = <<150, 60>>

(***************************************************************************)
(* Fail-stop.                                                              *)
(***************************************************************************)
\* the candidates main has begun to process: those of its `split:` lines
Begun == {log[i].a : i \in {k \in 1..Len(log) : log[k].tag = "split"}}

(***************************************************************************)
(* C11: once an operation has failed while a candidate was being           *)
(* processed, the run has ended with exit code 1 at that candidate, and    *)
(* for no candidate after it has the processing begun: none of them has    *)
(* been renamed, and no part file has been opened for any of them.         *)
(***************************************************************************)
C11_FailStop ==
  (error # "none" /\ Len(candidates) > 0) =>
    /\ pc = "exit"
    /\ exitCode = 1
    /\ idx \in 1..Len(candidates)
    /\ \A j \in (idx + 1)..Len(candidates) :
         /\ candidates[j].filePath \notin Begun
         /\ ~Relocated(candidates[j])
         /\ PartsWrittenFor(candidates[j]) = {}

\* a run that is no dry run has failed at the first of two candidates, after
\* it had renamed it
C11_Witness ==
  /\ pc = "exit"
  /\ error = "fault"
  /\ ~args.dryRun
  /\ idx = 1
  /\ Len(candidates) = 2
  /\ Relocated(candidates[1])

(***************************************************************************)
(* getBackupPath alone: called once on an absolute path of up to MaxDepth  *)
(* segments, inside and outside the repository root, among the segment     *)
(* names one that begins with two dots and one that holds a colon.         *)
(***************************************************************************)
MaxDepth == 3      \* most segments of a path handed to getBackupPath alone

DotDotName == <<".", ".", "a">>
ColonName == <<"a", ":", "b">>
SegNames == {RepoName, ReleaseName, BackupName, NameA, DotDotName, ColonName}

PathInputs == UNION {[1..n -> SegNames] : n \in 1..MaxDepth}

InitBackupPath ==
  /\ files = <<>>
  /\ dirs = {}
  /\ \E p \in PathInputs : candidates = <<[filePath |-> p, size |-> 0]>>
  /\ idx = 1
  /\ argv = <<>>
  /\ pc = "getBackupPath"
  /\ run = 1
  /\ args = DefaultArgs
  /\ exitCode = 0
  /\ error = "none"
  /\ frame = NoFrame
  /\ log = <<>>
  /\ ops = {}
  /\ start = [files |-> files, dirs |-> dirs, after |-> "none"]
  /\ snap = <<>>
  /\ written = <<>>
  /\ moved = {}
  /\ retry = {}

\* const backupPath = getBackupPath(filePath)
Classify ==
  /\ pc = "getBackupPath"
  /\ log' = Append(log, Line("backupPath", Item.filePath, GetBackupPath(Item.filePath), 0))
  /\ pc' = "classified"
  /\ UNCHANGED <<files, dirs, run, argv, args, exitCode, error, candidates,
                 idx, frame, ops, start, snap, written, moved, retry>>

NextBackupPath == Classify

SpecBackupPath == InitBackupPath /\ [][NextBackupPath]_vars

\* p is the repository root or lies below it
InsideRepo(p) == p = REPO_ROOT \/ IsUnder(REPO_ROOT, p)

(***************************************************************************)
(* C12: the backup path of a path inside the repository root is the        *)
(* backup root joined with the path relative to the repository root, and   *)
(* has no segment _external, whatever the names of its segments; the       *)
(* backup path of a path outside is backup root, _external, ROOT and the   *)
(* path without its root.                                                  *)
(***************************************************************************)
C12_PathClassification ==
  pc = "classified" =>
    LET p == log[1].a
        r == log[1].b
    IN IF InsideRepo(p)
       THEN /\ r = BACKUP_ROOT \o SubSeq(p, Len(REPO_ROOT) + 1, Len(p))
            /\ \A i \in 1..Len(r) : r[i] # ExternalName
       ELSE r = BACKUP_ROOT \o <<ExternalName, RootToken>> \o p

(***************************************************************************)
(* Candidate selection.                                                    *)
(***************************************************************************)
\* the paths of the `split:` lines of the run, in their order
RECURSIVE BegunInOrder(_)
BegunInOrder(lines) ==
  IF lines = <<>> THEN <<>>
  ELSE IF Head(lines).tag = "split"
       THEN <<Head(lines).a>> \o BegunInOrder(Tail(lines))
       ELSE BegunInOrder(Tail(lines))

(***************************************************************************)
(* C13: the candidates of a run are the files below the root directory,    *)
(* at any depth, that are larger than the ceiling and whose name does not  *)
(* end in .part and two digits; a file of the size of the ceiling is none; *)
(* each is listed once with its size, no candidate is larger than one      *)
(* listed before it, and they are processed in the order of the list.      *)
(***************************************************************************)
C13_CandidateSelection ==
  Scanned =>
    /\ {candidates[i].filePath : i \in 1..Len(candidates)}
         = {p \in DOMAIN snap :
              /\ IsUnder(args.dir, p)
              /\ Len(snap[p]) > args.maxBytes.v
              /\ ~MatchesPartPattern(Basename(p))}
    /\ \A i \in 1..Len(candidates) :
         /\ candidates[i].size = Len(snap[candidates[i].filePath])
         /\ \A j \in (i + 1)..Len(candidates) :
              /\ candidates[i].size >= candidates[j].size
              /\ candidates[i].filePath # candidates[j].filePath
    /\ LET begun == BegunInOrder(log)
       IN /\ Len(begun) <= Len(candidates)
          /\ \A k \in 1..Len(begun) : begun[k] = candidates[k].filePath

\* the run is at the second, smaller, of its two candidates
C13_Witness ==
  /\ pc = "split"
  /\ idx = 2
  /\ Len(candidates) = 2
  /\ candidates[1].size > candidates[2].size
  /\ Len(BegunInOrder(log)) = 2

(***************************************************************************)
(* The order of the steps taken for a candidate.                           *)
(***************************************************************************)
\* the part files of candidate c that an earlier split left, as the run found them
EarlierParts(c) == PartsInDir(start.files, Dirname(c.filePath), Basename(c.filePath))

\* the earlier part files of c are gone: what is there of them the run has written
ResetDone(c) == (EarlierParts(c) \cap DOMAIN files) \subseteq PartsWrittenFor(c)

\* a run that is no dry run stands at, or within, the processing of a candidate
Processing ==
  /\ ~args.dryRun
  /\ pc \in {"item", "unlinkBackup", "rename", "split", "removeParts",
             "openInput", "loop", "copy"}
  /\ idx \in 1..Len(candidates)

\* no step of a candidate other than the current one is in between: those
\* before it have been relocated, for those after it nothing has begun
OneAtATime ==
  /\ \A k \in 1..(idx - 1) : Relocated(candidates[k])
  /\ \A k \in (idx + 1)..Len(candidates) :
       /\ candidates[k].filePath \notin Begun
       /\ ~Relocated(candidates[k])
       /\ PartsWrittenFor(candidates[k]) = {}

\* the split reads the backup copy and writes into the original directory
\* under the original name
SplitFromBackup ==
  pc \in {"split", "removeParts", "openInput", "loop", "copy"} =>
    /\ frame.sourcePath = GetBackupPath(Item.filePath)
    /\ frame.targetDir = Dirname(Item.filePath)
    /\ frame.baseName = Basename(Item.filePath)

(***************************************************************************)
(* C14: for each candidate the steps are, in this order and with no step   *)
(* of another candidate in between, the reset of its part files, its       *)
(* relocation, the split from the backup copy: a candidate that has been   *)
(* relocated has had its earlier part files deleted before.                *)
(***************************************************************************)
C14_ResetRelocateSplit ==
  Processing =>
    /\ OneAtATime
    /\ SplitFromBackup
    /\ Relocated(Item) => ResetDone(Item)
    /\ PartsWrittenFor(Item) # {} => Relocated(Item)

(***************************************************************************)
(* C14 with the first two steps in the order of the code: relocation,      *)
(* reset, split.  Until the rename the earlier part files of the candidate *)
(* are all in place; from the rename on the candidate is at its backup     *)
(* path; the first part is opened only when the earlier ones are gone.     *)
(***************************************************************************)
C14_RelocateResetSplit ==
  Processing =>
    /\ OneAtATime
    /\ SplitFromBackup
    /\ pc \in {"item", "unlinkBackup", "rename"} =>
         /\ ~Relocated(Item)
         /\ EarlierParts(Item) \subseteq DOMAIN files
         /\ PartsWrittenFor(Item) = {}
    /\ pc \in {"split", "removeParts"} =>
         /\ Relocated(Item)
         /\ PartsWrittenFor(Item) = {}
    /\ pc \in {"openInput", "loop", "copy"} =>
         /\ Relocated(Item)
         /\ ResetDone(Item)

\* the candidate is at its backup path and its earlier part files are being deleted
C14_Witness ==
  /\ Processing
  /\ pc = "removeParts"
  /\ Relocated(Item)
  /\ EarlierParts(Item) \cap DOMAIN files # {}

(***************************************************************************)
(* splitFileFromSource alone on a source of ManyLen bytes with a chunk     *)
(* size of one byte: a split into ManyLen parts.                           *)
(***************************************************************************)
ManyLen == 100     \* size of the source that is split into one-byte parts

InitMany ==
  /\ \E k \in 0..1 :
       files = [p \in {BackupOfA} \cup {StalePart(i) : i \in 1..k} |->
                  IF p = BackupOfA THEN [i \in 1..ManyLen |-> i] ELSE <<90>>]
  /\ candidates = <<[filePath |-> FileA, size |-> ManyLen]>>
  /\ snap = [p \in {FileA} |-> [i \in 1..ManyLen |-> i]]
  /\ moved = {[filePath |-> FileA, bytes |-> [i \in 1..ManyLen |-> i]]}
  /\ dirs = DirsOf(files)
  /\ \E d \in BOOLEAN :
       /\ args = [dir |-> DEFAULT_RELEASE_DIR, maxBytes |-> Num(1),
                  chunkBytes |-> Num(1), dryRun |-> d]
       /\ frame = [NoFrame EXCEPT !.sourcePath = BackupOfA,
                                  !.targetDir = DEFAULT_RELEASE_DIR,
                                  !.baseName = NameA, !.chunkBytes = 1,
                                  !.bufferBytes = 1, !.dryRun = d]
  /\ argv = <<>>
  /\ pc = "split"
  /\ run = 1
  /\ exitCode = 0
  /\ error = "none"
  /\ idx = 1
  /\ log = <<>>
  /\ ops = {}
  /\ start = [files |-> files, dirs |-> dirs, after |-> "none"]
  /\ written = <<>>
  /\ retry = {}

NextMany == Split

SpecMany == InitMany /\ [][NextMany]_vars

(***************************************************************************)
(* C15: the i-th part file a split creates is named by the base name,      *)
(* .part and exactly two decimal digits that read i: the numbers start at  *)
(* 01 and go up by one, without gap or repeat, and no name has another     *)
(* number of digits.                                                       *)
(***************************************************************************)
C15_PartNaming ==
  \A i \in 1..Len(written) :
    /\ Dirname(written[i]) = frame.targetDir
    /\ IsPartNameOf(Basename(written[i]), frame.baseName)
    /\ PartNumber(Basename(written[i])) = i

(***************************************************************************)
(* splitFileFromSource alone for the base name a in a release directory    *)
(* that holds files with names close to those of its parts.                *)
(***************************************************************************)
ResetNames ==
  {NameA \o DotPart \o <<"0", "1">>,                          \* a.part01
   NameA \o <<".", "P", "A", "R", "T", "0", "2">>,            \* a.PART02
   NameA \o DotPart \o <<"X">> \o DotPart \o <<"0", "1">>,    \* a.partX.part01
   NameA \o DotPart \o DotPart \o <<"0", "1">>,               \* a.part.part01
   NameB \o DotPart \o <<"0", "1">>,                          \* b.part01
   NameA \o DotPart \o <<"1">>,                               \* a.part1
   NameA \o DotPart \o <<"0", "0", "1">>,                     \* a.part001
   NameA}                                                     \* a

\* a.part01 in the subdirectory w, and the directory a.part03
PartInSub == Join(Join(DEFAULT_RELEASE_DIR, NameSub), NameA \o DotPart \o <<"0", "1">>)
PartDir == Join(DEFAULT_RELEASE_DIR, NameA \o DotPart \o <<"0", "3">>)

InitReset ==
  /\ \E names \in SUBSET ResetNames, sub \in BOOLEAN, dr \in BOOLEAN :
       /\ files = [p \in {BackupOfA} \cup {Join(DEFAULT_RELEASE_DIR, n) : n \in names}
                          \cup (IF sub THEN {PartInSub} ELSE {}) |->
                     IF p = BackupOfA THEN Bytes(1, 2) ELSE Bytes(9, 1)]
       /\ dirs = DirsOf(files) \cup (IF dr THEN {PartDir} ELSE {})
  /\ candidates = <<[filePath |-> FileA, size |-> 2]>>
  /\ snap = [p \in {FileA} |-> Bytes(1, 2)]
  /\ moved = {[filePath |-> FileA, bytes |-> Bytes(1, 2)]}
  /\ \E d \in BOOLEAN :
       /\ args = [dir |-> DEFAULT_RELEASE_DIR, maxBytes |-> Num(1),
                  chunkBytes |-> Num(1), dryRun |-> d]
       /\ frame = [NoFrame EXCEPT !.sourcePath = BackupOfA,
                                  !.targetDir = DEFAULT_RELEASE_DIR,
                                  !.baseName = NameA, !.chunkBytes = 1,
                                  !.bufferBytes = 1, !.dryRun = d]
  /\ argv = <<>>
  /\ pc = "split"
  /\ run = 1
  /\ exitCode = 0
  /\ error = "none"
  /\ idx = 1
  /\ log = <<>>
  /\ ops = {}
  /\ start = [files |-> files, dirs |-> dirs, after |-> "none"]
  /\ written = <<>>
  /\ retry = {}

NextReset == Split

SpecReset == InitReset /\ [][NextReset]_vars

\* name is base, then .part in letters of either case, then exactly two digits
IsResetName(name, base) ==
  /\ Len(name) = Len(base) + 7
  /\ SubSeq(name, 1, Len(base)) = base
  /\ [i \in 1..5 |-> Lower(name[Len(base) + i])] = DotPart
  /\ IsDigit(name[Len(name) - 1])
  /\ IsDigit(name[Len(name)])

(***************************************************************************)
(* C16: when the reset of a split that is no dry run is over, the files    *)
(* it has deleted are the files of the target directory named by the base  *)
(* name, .part in either case and exactly two digits; every other file is  *)
(* there with its bytes, and so is every directory.                        *)
(***************************************************************************)
C16_ResetExact ==
  (~frame.dryRun /\ pc = "openInput") =>
    /\ DOMAIN start.files \ DOMAIN files
         = {p \in DOMAIN start.files :
              /\ Dirname(p) = frame.targetDir
              /\ IsResetName(Basename(p), frame.baseName)}
    /\ \A p \in DOMAIN files : p \in DOMAIN start.files /\ files[p] = start.files[p]
    /\ dirs = start.dirs

(***************************************************************************)
(* C17: a split holds at most one part file open; when it goes round its   *)
(* outer loop, and so before it opens the next part, no part file is       *)
(* open; and when it has returned, to main or with an error, neither the   *)
(* source nor any part file is open.                                       *)
(***************************************************************************)
C17_HandleDiscipline ==
  /\ Cardinality(frame.handles) <= 1
  /\ frame.handles \subseteq {frame.output}
  /\ pc = "loop" => frame.handles = {} /\ frame.input
  /\ pc \in {"item", "exit"} => frame.handles = {} /\ ~frame.input

\* a split has failed with its second part file open
C17_Witness ==
  /\ pc = "exit"
  /\ error = "fault"
  /\ Len(written) = 2
  /\ written[2] \in DOMAIN files
  /\ Len(files[written[2]]) < Len(files[written[1]])
  /\ frame.handles = {}

(***************************************************************************)
(* Bounded reads.                                                          *)
(***************************************************************************)
\* the bytes a step has appended to the part file that is open
Appended == Len(files'[frame.output]) - Len(files[frame.output])

(***************************************************************************)
(* C18: whatever a read returns, a step of the copy loop moves no more     *)
(* bytes than the buffer holds and no more than are missing from the part, *)
(* and no part file grows beyond the chunk size.                           *)
(***************************************************************************)
C18_BoundedReads ==
  [][(pc = "copy" /\ frame.output \in DOMAIN files /\ files' # files) =>
       /\ Appended >= 1
       /\ Appended <= frame.bufferBytes
       /\ Appended <= frame.remaining
       /\ Len(files'[frame.output]) <= frame.chunkBytes
       /\ \A i \in 1..Len(written) :
            written[i] \in DOMAIN files' => Len(files'[written[i]]) <= frame.chunkBytes]_vars

\* a part of a chunk larger than the buffer has been filled by more than one read
C18_Witness ==
  /\ pc = "copy"
  /\ frame.remaining = 0
  /\ frame.chunkBytes > frame.bufferBytes
  /\ Len(files[frame.output]) = frame.chunkBytes

(***************************************************************************)
(* splitFileFromSource alone while another process truncates the source:   *)
(* the size recorded by input.stat() is then more than the file holds, and *)
(* a read at the end of the file returns zero bytes.  The split is         *)
(* followed up to its part number MaxParts.                                *)
(***************************************************************************)
MaxParts == 6      \* part number up to which a split of a truncated source is followed

\* the source loses its bytes from position n + 1 on while the split has it open
Shrink ==
  /\ pc \in {"loop", "copy"}
  /\ frame.input
  /\ frame.sourcePath \in DOMAIN files
  /\ \E n \in 0..(Len(files[frame.sourcePath]) - 1) :
       files' = [files EXCEPT ![frame.sourcePath] = SubSeq(@, 1, n)]
  /\ UNCHANGED <<dirs, pc, run, argv, args, exitCode, error, candidates, idx,
                 frame, log, ops, start, snap, written, moved, retry>>

\* a step of the split while its part number is at most MaxParts
SplitUpToMaxParts == frame.part <= MaxParts /\ Split

NextShrink == SplitUpToMaxParts \/ Shrink

SpecShrink == InitSplit /\ [][NextShrink]_vars

(***************************************************************************)
(* C19: a split creates no more part files than the source had bytes when  *)
(* it was opened, and every round of its outer loop moves the offset on    *)
(* or is the last: so the split ends, also when a read returns zero bytes  *)
(* because the source has become shorter than its recorded size.           *)
(***************************************************************************)
C19_SplitTerminates ==
  /\ [](Len(written) <= frame.totalBytes)
  /\ [][/\ (pc = "copy" /\ pc' = "loop") =>
             Len(files[frame.output]) > 0 \/ ~MoreToSplit(frame')
        /\ (pc = "loop" /\ pc' = "loop" /\ frame' # frame) =>
             frame'.offset > frame.offset]_vars

(***************************************************************************)
(* C20: a run that is no dry run and follows, with the same options, a run *)
(* that completed with exit code 0 selects no candidate and leaves every   *)
(* file and every directory as it found them, whatever the root directory. *)
(***************************************************************************)
C20_IdempotentRerun ==
  (start.after = "ok" /\ ~args.dryRun /\ pc # "parseArgs") =>
    /\ candidates = <<>>
    /\ files = start.files
    /\ dirs = start.dirs
=============================================================================
